---- MODULE Spec2Model ----
(***************************************************************************)
(* gitlab-fingerprinter: a model of main() and getTagsForMinorVersion() of *)
(* src/gitlab-fingerprinter.go.                                            *)
(*                                                                         *)
(* Strings are tuples of one-character strings, so that strings.Split,     *)
(* strings.Join and strings.Replace are computed, not assumed.  Instants   *)
(* are integers counting hours; a calendar date is the instant divided by  *)
(* 24 (what Format("2006-01-02") followed by Parse keeps of an instant).   *)
(***************************************************************************)
EXTENDS Integers, Sequences, FiniteSets, TLC

\* ------------------------------------------------------------------ bounds
\* Largest number of command-line targets of one run.
MaxTargets == 2
\* Longest tag list the tag loop is run on by itself.
MaxTags == 3
\* The instant time.Now() returns during the run, in hours.
Now == 100

\* ------------------------------------------------------- program constants
\* time.Now().Add(-24 * time.Hour)
FreshnessHours == 24

\* ---------------------------------------------------------------- strings
Dot == "."
Unknown == <<"u", "n", "k", "n", "o", "w", "n">>
EmptyString == <<>>
Digits == {"0", "1", "2", "3", "4", "5", "6", "7", "8", "9"}

\* strings.Split(s, "."): accumulates the pieces left to right.
RECURSIVE SplitAcc(_, _, _, _)
SplitAcc(s, k, cur, acc) ==
    IF k > Len(s) THEN Append(acc, cur)
    ELSE IF s[k] = Dot THEN SplitAcc(s, k + 1, <<>>, Append(acc, cur))
    ELSE SplitAcc(s, k + 1, Append(cur, s[k]), acc)

Split(s) == SplitAcc(s, 1, <<>>, <<>>)

\* strings.Join(parts, ".")
RECURSIVE Join(_)
Join(parts) ==
    IF Len(parts) = 0 THEN <<>>
    ELSE IF Len(parts) = 1 THEN parts[1]
    ELSE parts[1] \o <<Dot>> \o Join(Tail(parts))

\* strings.Replace(s, old, "", -1): drops every non-overlapping occurrence of old.
RECURSIVE Replace(_, _)
Replace(s, old) ==
    IF Len(s) < Len(old) THEN s
    ELSE IF SubSeq(s, 1, Len(old)) = old THEN Replace(SubSeq(s, Len(old) + 1, Len(s)), old)
    ELSE <<s[1]>> \o Replace(Tail(s), old)

\* versionParts[:2] panics when the slice Split returned holds fewer than two
\* pieces (its capacity equals its length).
SliceFails(parts) == Len(parts) < 2

\* strings.Join(versionParts[:2], ".")
MinorOf(version) == Join(SubSeq(Split(version), 1, 2))

\* ------------------------------------------------------------ data universe
Ver(a, b, c) == <<a, Dot, b, Dot, c>>
TagName(a, b, c) == <<"v">> \o Ver(a, b, c) \o <<"-", "e", "e">>

BuildEE == "gitlab-ee"
BuildCE == "gitlab-ce"
BuildOther == "gitlab-jh"

\* The hash dictionary served by hashesURL: one entry per shape the resolver
\* distinguishes.  "h0" is the hash no entry has.
HashDictionaryData ==
    [h \in {"h1", "h2", "h3", "h4", "h5"} |->
        CASE h = "h1" -> [Build |-> BuildEE, Versions |-> <<Ver("1", "0", "1")>>]
          [] h = "h2" -> [Build |-> BuildCE, Versions |-> <<Ver("1", "0", "1"), Ver("1", "0", "2")>>]
          [] h = "h3" -> [Build |-> BuildEE, Versions |-> <<Ver("1", "0", "2"), Ver("1", "1", "0")>>]
          [] h = "h4" -> [Build |-> BuildOther, Versions |-> <<Ver("1", "0", "2")>>]
          [] h = "h5" -> [Build |-> BuildOther, Versions |-> <<Ver("1", "1", "0"), Ver("1", "1", "1")>>]]

ManifestHashes == {"h0", "h1", "h2", "h3", "h4", "h5"}

\* Last-Modified instants a manifest may carry.
LastModifiedDates == {Now - 48, Now - 20, Now - 1}

\* Tag lists the tag-history provider may answer with.
TagLists ==
    { <<>>,
      <<[Name |-> TagName("1", "0", "1"), CreatedAtDate |-> Now - 40],
        [Name |-> TagName("1", "0", "2"), CreatedAtDate |-> Now - 10]>>,
      <<[Name |-> TagName("1", "1", "1"), CreatedAtDate |-> Now - 30],
        [Name |-> TagName("1", "1", "0"), CreatedAtDate |-> Now - 30]>> }

\* EOL field of an endoflife.date record: the text of a calendar date, or text
\* that time.Parse("2006-01-02", ...) rejects.
DateText(day) == [valid |-> TRUE, day |-> day]
BadDate == [valid |-> FALSE, day |-> 0]
\* time.Now().Format("2006-01-02") parsed back: the day, without the hour.
Today == Now \div 24
EolRecords ==
    { [Cycle |-> Join(<<<<"1">>, <<c>>>>), EOL |-> e, Latest |-> Ver("1", c, l)] :
        c \in {"0"}, e \in {DateText(Today - 1), DateText(Today), DateText(Today + 1), BadDate}, l \in {"1", "2"} }
GitlabVersionsChoices ==
    {<<>>} \cup {<<r>> : r \in EolRecords}
      \cup { <<[Cycle |-> <<"1", Dot, "1">>, EOL |-> DateText(Today - 1), Latest |-> Ver("1", "1", "1")],
               [Cycle |-> <<"1", Dot, "0">>, EOL |-> DateText(Today + 1), Latest |-> Ver("1", "0", "2")]>> }

\* What net.LookupIP may answer for a well-formed host.
LookupAnswers == {"ips", "error", "empty"}
\* Answers of the tag-history provider: a tag list, or one that
\* getTagsForMinorVersion turns into an error (transport error, status,
\* content type, JSON, date layout).
FetchError == [err |-> TRUE, tags |-> <<>>]
TagAnswers == {FetchError} \cup {[err |-> FALSE, tags |-> l] : l \in TagLists}

\* ------------------------------------------------------------------ state
VARIABLES
    pc,                 \* position of main()
    args,               \* os.Args[1:], each a well-formed or a malformed URL
    i,                  \* index of the argument the first loop is at
    targetURLs,         \* hosts that passed parsing and the DNS check
    hashDictionary,     \* result of getHashDictionary()
    gitlabVersionsInfo, \* result of getGitlabVersionsInfo()
    t,                  \* index of the target the second loop is at
    FinalOutput,        \* [Results, Errors]
    gitlabTagsCache,    \* minor version -> tag list
    observed,           \* history: what each target's manifest fetch answered
    tagFetchLog,        \* history: minor versions the tag provider was asked for
    nearest             \* the tag loop run on its own: its inputs and local variables

vars == <<pc, args, i, targetURLs, hashDictionary, gitlabVersionsInfo, t,
          FinalOutput, gitlabTagsCache, observed, tagFetchLog, nearest>>

\* Sequences of 1..n elements of S.
SeqsUpTo(S, n) == UNION {[1..k -> S] : k \in 1..n}

\* The tag loop is not run on its own during a run of main().
NearestIdle == [tags |-> <<>>, reference |-> Now, k |-> 1, st |-> <<>>]

Init ==
    /\ pc = "args"
    /\ args \in SeqsUpTo({"url", "malformed"}, MaxTargets)
    /\ i = 1
    /\ targetURLs = <<>>
    /\ hashDictionary = <<>>
    /\ gitlabVersionsInfo = <<>>
    /\ t = 1
    /\ FinalOutput = [Results |-> <<>>, Errors |-> <<>>]
    /\ gitlabTagsCache = <<>>
    /\ observed = <<>>
    /\ tagFetchLog = <<>>
    /\ nearest = NearestIdle

\* Mutation of PhaseAfter: the datasets are loaded after the target loop.
PhaseAfterLateLoad(p) ==
    CASE p = "args" -> "targets"
      [] p = "targets" -> "hash"
      [] p = "hash" -> "eol"
      [] p = "eol" -> "report"

\* The order of the stages of main(): argument loop, the two dataset loads,
\* target loop, report.
PhaseAfter(p) ==
    CASE p = "args" -> "hash"
      [] p = "hash" -> "eol"
      [] p = "eol" -> "targets"
      [] p = "targets" -> "report"

NewError(target, error, details) ==
    [Target |-> target, Error |-> error, Details |-> details]

AppendError(out, e) == [out EXCEPT !.Errors = Append(@, e)]
AppendResult(out, r) == [out EXCEPT !.Results = Append(@, r)]

\* -------------------------------------------------- first loop of main()
AfterArg == IF i = Len(args) THEN PhaseAfter("args") ELSE "args"

\* url.ParseRequestURI fails: targetURL is nil and targetURL.Host panics.
ParseArgMalformed ==
    /\ pc = "args" /\ i <= Len(args)
    /\ args[i] = "malformed"
    /\ pc' = "panicUrl"
    /\ UNCHANGED nearest
    /\ UNCHANGED <<args, i, targetURLs, hashDictionary, gitlabVersionsInfo, t,
                   FinalOutput, gitlabTagsCache, observed, tagFetchLog>>

\* net.LookupIP returns an error: one error entry, next argument.
ParseArgLookupError ==
    /\ pc = "args" /\ i <= Len(args)
    /\ args[i] = "url"
    /\ \E answer \in LookupAnswers :
        /\ answer = "error"
        /\ FinalOutput' = AppendError(FinalOutput, NewError(i, "Could not resolve", <<"lookup">>))
    /\ i' = i + 1
    /\ pc' = AfterArg
    /\ UNCHANGED nearest
    /\ UNCHANGED <<args, targetURLs, hashDictionary, gitlabVersionsInfo, t,
                   gitlabTagsCache, observed, tagFetchLog>>

\* net.LookupIP returns no address and no error: err.Error() panics on nil.
ParseArgLookupEmpty ==
    /\ pc = "args" /\ i <= Len(args)
    /\ args[i] = "url"
    /\ \E answer \in LookupAnswers : answer = "empty"
    /\ pc' = "panicDns"
    /\ UNCHANGED nearest
    /\ UNCHANGED <<args, i, targetURLs, hashDictionary, gitlabVersionsInfo, t,
                   FinalOutput, gitlabTagsCache, observed, tagFetchLog>>

\* The host resolves: it joins the target list.
ParseArgOk ==
    /\ pc = "args" /\ i <= Len(args)
    /\ args[i] = "url"
    /\ \E answer \in LookupAnswers : answer = "ips"
    /\ targetURLs' = Append(targetURLs, i)
    /\ i' = i + 1
    /\ pc' = AfterArg
    /\ UNCHANGED nearest
    /\ UNCHANGED <<args, hashDictionary, gitlabVersionsInfo, t,
                   FinalOutput, gitlabTagsCache, observed, tagFetchLog>>

\* ------------------------------------------------------- dataset loads
\* getHashDictionary() and the log.Fatal that follows its error.
LoadHashDictionary ==
    /\ pc = "hash"
    /\ \E ok \in BOOLEAN :
        IF ok THEN /\ hashDictionary' = HashDictionaryData
                   /\ pc' = PhaseAfter("hash")
              ELSE /\ pc' = "fatalHash"
                   /\ UNCHANGED hashDictionary
    /\ UNCHANGED nearest
    /\ UNCHANGED <<args, i, targetURLs, gitlabVersionsInfo, t,
                   FinalOutput, gitlabTagsCache, observed, tagFetchLog>>

\* getGitlabVersionsInfo() and the log.Fatal that follows its error.
LoadGitlabVersionsInfo ==
    /\ pc = "eol"
    /\ \E ok \in BOOLEAN, answer \in GitlabVersionsChoices :
        IF ok
            THEN /\ gitlabVersionsInfo' = answer
                 /\ pc' = PhaseAfter("eol")
            ELSE /\ pc' = "fatalEol"
                 /\ UNCHANGED gitlabVersionsInfo
    /\ UNCHANGED nearest
    /\ UNCHANGED <<args, i, targetURLs, hashDictionary, t,
                   FinalOutput, gitlabTagsCache, observed, tagFetchLog>>

\* -------------------------------------------------------- version resolver
\* The switch on info.Build.
Edition(build) ==
    CASE build = BuildEE -> "enterprise"
      [] build = BuildCE -> "community"
      [] OTHER -> "unknown"

\* The default branch of the switch appends to FinalOutput.Errors.
EditionErrors(target, build) ==
    IF build \in {BuildEE, BuildCE} THEN <<>>
    ELSE <<NewError(target, "Could not determine Edition", <<build>>)>>

\* Keys of minorVersionsMap after the loop over info.Versions.
MinorVersionsMap(versions) == {MinorOf(versions[k]) : k \in 1..Len(versions)}

\* resultMinorVersion after that loop: the minor version of the last entry.
ResultMinorVersion(versions) ==
    IF Len(versions) = 0 THEN EmptyString ELSE MinorOf(versions[Len(versions)])

AmbiguityErrors(target, versions) ==
    <<NewError(target, "Could not determine exact version", versions)>>

\* Mutation of CacheHit: the cache is never consulted.
CacheHitNever(cache, minorVersion) == FALSE

\* if cachedTags, ok := gitlabTagsCache[minorVersion]; ok
CacheHit(cache, minorVersion) == minorVersion \in DOMAIN cache

\* getTagsForMinorVersion: the cached list, or one request to the provider
\* whose answer is stored before it is returned.  fetched lists the requests.
getTagsForMinorVersion(cache, minorVersion, answer) ==
    IF CacheHit(cache, minorVersion)
        THEN [tags |-> cache[minorVersion], err |-> FALSE, cache |-> cache, fetched |-> <<>>]
    ELSE IF answer.err
        THEN [tags |-> <<>>, err |-> TRUE, cache |-> cache, fetched |-> <<minorVersion>>]
    ELSE [tags |-> answer.tags, err |-> FALSE,
          cache |-> (minorVersion :> answer.tags) @@ cache, fetched |-> <<minorVersion>>]

\* The zero time.Time (1 January of year 1, some 2025 years before the run):
\* the value of "var closestDate time.Time" and of a tag whose created_at is
\* null or missing.
ZeroTime == Now - 17750000

\* time.Duration holds at most 2^63 - 1 nanoseconds, less than this many hours.
DurationCap == 2562048

\* lastModified.Sub(createdAt): the difference, saturated at the largest Duration.
Sub(a, b) ==
    IF a - b >= DurationCap THEN DurationCap
    ELSE IF b - a >= DurationCap THEN 0 - DurationCap
    ELSE a - b

\* var closestDate time.Time; var closestDateDifference time.Duration;
\* var closestDateTag string
ClosestInit ==
    [closestDate |-> ZeroTime, closestDateDifference |-> 0, closestDateTag |-> EmptyString]

\* The body of the loop over tags for one tag.
ClosestStep(tag, lastModified, st) ==
    IF tag.CreatedAtDate < lastModified
        THEN LET difference == Sub(lastModified, tag.CreatedAtDate)
             IN  IF st.closestDate = ZeroTime \/ difference < st.closestDateDifference
                     THEN [closestDate |-> tag.CreatedAtDate,
                           closestDateDifference |-> difference,
                           closestDateTag |-> tag.Name]
                     ELSE st
        ELSE st

\* The loop over tags, from tags[k] on.
RECURSIVE ClosestAcc(_, _, _, _)
ClosestAcc(tags, k, lastModified, st) ==
    IF k > Len(tags) THEN st
    ELSE ClosestAcc(tags, k + 1, lastModified, ClosestStep(tags[k], lastModified, st))

ClosestDateTag(tags, lastModified) ==
    ClosestAcc(tags, 1, lastModified, ClosestInit).closestDateTag

\* strings.Replace(strings.Replace(closestDateTag, "v", "", -1), "-ee", "", -1)
TagVersion(closestDateTag) == Replace(Replace(closestDateTag, <<"v">>), <<"-", "e", "e">>)

\* ----------------------------------------------------- EOL/outdated check
EolWarning(minor) == <<"is end-of-life (EOL)", minor>>
OutdatedWarning(version, cycle, latest) == <<"is outdated, latest", version, cycle, latest>>

\* Mutation of EolPassed: a cycle whose EOL date is today counts as past.
EolPassedOrToday(eol) == eol.day <= Today

\* eolDate.Before(parsedDate), parsedDate being today's date.
EolPassed(eol) == eol.day < Today

\* Mutation of EolStep: the EOL branch forgets result.Outdated = true.
EolStepEolOnly(rec, version, minor, acc) ==
    LET a1 == IF EolPassed(rec.EOL)
                  THEN [acc EXCEPT !.Warnings = Append(@, EolWarning(minor)),
                                   !.EndOfLife = TRUE]
                  ELSE acc
    IN  IF version # rec.Latest
            THEN [a1 EXCEPT !.Warnings = Append(@, OutdatedWarning(version, rec.Cycle, rec.Latest)),
                            !.Outdated = TRUE]
            ELSE a1

\* The body of the loop over gitlabVersionsInfo for one record whose date parses.
EolStep(rec, version, minor, acc) ==
    LET a1 == IF EolPassed(rec.EOL)
                  THEN [acc EXCEPT !.Warnings = Append(@, EolWarning(minor)),
                                   !.EndOfLife = TRUE, !.Outdated = TRUE]
                  ELSE acc
    IN  IF version # rec.Latest
            THEN [a1 EXCEPT !.Warnings = Append(@, OutdatedWarning(version, rec.Cycle, rec.Latest)),
                            !.Outdated = TRUE]
            ELSE a1

\* The loop over gitlabVersionsInfo; exit is os.Exit(1) on an unparsable date.
RECURSIVE EolAcc(_, _, _, _, _)
EolAcc(infos, k, version, minor, acc) ==
    IF k > Len(infos) THEN acc
    ELSE IF infos[k].Cycle # minor THEN EolAcc(infos, k + 1, version, minor, acc)
    ELSE IF infos[k].EOL = BadDate THEN [acc EXCEPT !.exit = TRUE]
    ELSE EolAcc(infos, k + 1, version, minor, EolStep(infos[k], version, minor, acc))

EolEval(infos, version, minor) ==
    EolAcc(infos, 1, version, minor,
           [EndOfLife |-> FALSE, Outdated |-> FALSE, Warnings |-> <<>>, exit |-> FALSE])

NewResult(target, version, edition, eol, outdated, warnings) ==
    [Target |-> target, Version |-> version, Edition |-> edition,
     EndOfLife |-> eol, Outdated |-> outdated, Warnings |-> warnings]

\* var result Result; result.Target = targetURL.Host
BlankResult(target) == NewResult(target, EmptyString, "", FALSE, FALSE, <<>>)

\* The body of "if dictionaryHash == manifest.Hash": what it appends to the
\* errors, the result it leaves, the cache, and where main() is afterwards.
ResolveFound(target, info, lastModified, cache, infos, answer) ==
    LET edErrs == EditionErrors(target, info.Build)
        single == Len(info.Versions) = 1
        ambiguous == ~single /\ Cardinality(MinorVersionsMap(info.Versions)) > 1
        needTags == ~single /\ ~ambiguous
        got == IF needTags
                  THEN getTagsForMinorVersion(cache, ResultMinorVersion(info.Versions), answer)
                  ELSE [tags |-> <<>>, err |-> FALSE, cache |-> cache, fetched |-> <<>>]
        version == IF single THEN info.Versions[1]
                   ELSE IF ambiguous THEN EmptyString
                   ELSE TagVersion(ClosestDateTag(got.tags, lastModified))
        errs == IF ambiguous THEN edErrs \o AmbiguityErrors(target, info.Versions) ELSE edErrs
        parts == Split(version)
        eol == EolEval(infos, version, MinorOf(version))
        out(p, es, r) == [pc |-> p, errors |-> es, result |-> r,
                          cache |-> got.cache, fetched |-> got.fetched]
    IN  IF got.err THEN out("fatalTags", edErrs, <<>>)
        ELSE IF SliceFails(parts) THEN out("panicSlice", errs, <<>>)
        ELSE IF eol.exit THEN out("exitDate", errs, <<>>)
        ELSE out("targets", errs,
                 <<NewResult(target, version, Edition(info.Build),
                             eol.EndOfLife, eol.Outdated, eol.Warnings)>>)

\* manifest.LastModifiedDate.After(time.Now().Add(-24 * time.Hour))
IsFresh(lastModified) == lastModified > Now - FreshnessHours

NotIndexedWarnings == <<<<"hash was not found, likely not indexed yet">>, <<"hashesURL">>>>

\* The "if !hashFound" block followed by the append of line 310: the results
\* and the errors one unmatched target adds.
ResolveNotFound(target, hash, lastModified) ==
    IF IsFresh(lastModified)
        THEN [results |-> <<NewResult(target, Unknown, "unknown", FALSE, FALSE, NotIndexedWarnings),
                            BlankResult(target)>>,
              errors |-> <<>>]
        ELSE [results |-> <<BlankResult(target)>>,
              errors |-> <<NewError(target, "Unable to guess version of target",
                                    <<hash, lastModified>>)>>]

\* ------------------------------------------------- second loop of main()
InTargets == pc = "targets" /\ t <= Len(targetURLs)

Observation(target, kind, hash, lastModified) ==
    [Target |-> target, Kind |-> kind, Hash |-> hash, LastModifiedDate |-> lastModified]

\* getManifest returns an error: one error entry, next target.
TargetManifestError ==
    /\ InTargets
    /\ FinalOutput' = AppendError(FinalOutput,
            NewError(targetURLs[t], "Failed to fingerprint target", <<"getManifest">>))
    /\ observed' = Append(observed, Observation(targetURLs[t], "error", "", 0))
    /\ t' = t + 1
    /\ UNCHANGED nearest
    /\ UNCHANGED <<pc, args, i, targetURLs, hashDictionary, gitlabVersionsInfo,
                   gitlabTagsCache, tagFetchLog>>

\* The manifest's outputPath does not mention gitlab: one error entry, next target.
TargetNotGitlab ==
    /\ InTargets
    /\ observed' = Append(observed, Observation(targetURLs[t], "notGitlab", "", 0))
    /\ FinalOutput' = AppendError(FinalOutput,
            NewError(targetURLs[t], "Target is not a GitLab installation", <<"outputPath">>))
    /\ t' = t + 1
    /\ UNCHANGED nearest
    /\ UNCHANGED <<pc, args, i, targetURLs, hashDictionary, gitlabVersionsInfo,
                   gitlabTagsCache, tagFetchLog>>

\* The manifest's hash is a key of the dictionary.
TargetHashFound ==
    /\ InTargets
    /\ \E hash \in ManifestHashes, lastModified \in LastModifiedDates,
          answer \in TagAnswers :
        /\ hash \in DOMAIN hashDictionary
        /\ LET r == ResolveFound(targetURLs[t], hashDictionary[hash], lastModified,
                                 gitlabTagsCache, gitlabVersionsInfo, answer)
           IN  /\ pc' = r.pc
               /\ FinalOutput' = [Results |-> FinalOutput.Results \o r.result,
                                  Errors |-> FinalOutput.Errors \o r.errors]
               /\ gitlabTagsCache' = r.cache
               /\ tagFetchLog' = tagFetchLog \o r.fetched
               /\ t' = IF r.pc = "targets" THEN t + 1 ELSE t
        /\ observed' = Append(observed, Observation(targetURLs[t], "gitlab", hash, lastModified))
    /\ UNCHANGED nearest
    /\ UNCHANGED <<args, i, targetURLs, hashDictionary, gitlabVersionsInfo>>

\* The manifest's hash is no key of the dictionary.
TargetHashNotFound ==
    /\ InTargets
    /\ \E hash \in ManifestHashes, lastModified \in LastModifiedDates :
        /\ hash \notin DOMAIN hashDictionary
        /\ LET r == ResolveNotFound(targetURLs[t], hash, lastModified)
           IN  FinalOutput' = [Results |-> FinalOutput.Results \o r.results,
                               Errors |-> FinalOutput.Errors \o r.errors]
        /\ observed' = Append(observed, Observation(targetURLs[t], "gitlab", hash, lastModified))
    /\ t' = t + 1
    /\ UNCHANGED nearest
    /\ UNCHANGED <<pc, args, i, targetURLs, hashDictionary, gitlabVersionsInfo,
                   gitlabTagsCache, tagFetchLog>>

\* The range over targetURLs is exhausted.
EndTargets ==
    /\ pc = "targets" /\ t > Len(targetURLs)
    /\ pc' = PhaseAfter("targets")
    /\ UNCHANGED nearest
    /\ UNCHANGED <<args, i, targetURLs, hashDictionary, gitlabVersionsInfo, t,
                   FinalOutput, gitlabTagsCache, observed, tagFetchLog>>

\* json.MarshalIndent(FinalOutput) and fmt.Println.
PrintReport ==
    /\ pc = "report"
    /\ pc' = "printed"
    /\ UNCHANGED nearest
    /\ UNCHANGED <<args, i, targetURLs, hashDictionary, gitlabVersionsInfo, t,
                   FinalOutput, gitlabTagsCache, observed, tagFetchLog>>

Next ==
    \/ ParseArgMalformed
    \/ ParseArgLookupError
    \/ ParseArgLookupEmpty
    \/ ParseArgOk
    \/ LoadHashDictionary
    \/ LoadGitlabVersionsInfo
    \/ TargetManifestError
    \/ TargetNotGitlab
    \/ TargetHashFound
    \/ TargetHashNotFound
    \/ EndTargets
    \/ PrintReport

Spec == Init /\ [][Next]_vars

\* ------------------------------------------- the tag loop run by itself
\* Day n, as an instant.
Day(n) == 24 * n
\* created_at of a tag: a date, or the zero time of a null created_at.
NearestDates == {ZeroTime, Day(1), Day(5), Day(10)}
\* Last-Modified of the manifest the tags are compared with.
NearestReferences == {Day(0), Day(5), Day(7), Day(11)}
\* The k-th tag of a list is the k-th patch release of 1.0.
PatchDigits == <<"1", "2", "3", "4", "5", "6", "7", "8", "9">>
NearestTagLists ==
    UNION { { [k \in 1..n |-> [Name |-> TagName("1", "0", PatchDigits[k]),
                               CreatedAtDate |-> d[k]]] : d \in [1..n -> NearestDates] }
            : n \in 0..MaxTags }

InitNearest ==
    /\ pc = "tags"
    /\ args = <<>>
    /\ i = 1
    /\ targetURLs = <<>>
    /\ hashDictionary = <<>>
    /\ gitlabVersionsInfo = <<>>
    /\ t = 1
    /\ FinalOutput = [Results |-> <<>>, Errors |-> <<>>]
    /\ gitlabTagsCache = <<>>
    /\ observed = <<>>
    /\ tagFetchLog = <<>>
    /\ \E tags \in NearestTagLists, reference \in NearestReferences :
          nearest = [tags |-> tags, reference |-> reference, k |-> 1, st |-> ClosestInit]

\* One iteration of "for _, tag := range tags".
NearestStep ==
    /\ pc = "tags"
    /\ nearest.k <= Len(nearest.tags)
    /\ nearest' = [nearest EXCEPT
                      !.st = ClosestStep(nearest.tags[nearest.k], nearest.reference, @),
                      !.k = @ + 1]
    /\ UNCHANGED <<pc, args, i, targetURLs, hashDictionary, gitlabVersionsInfo, t,
                   FinalOutput, gitlabTagsCache, observed, tagFetchLog>>

NextNearest == NearestStep

SpecNearest == InitNearest /\ [][NextNearest]_vars

\* ================================================================ properties
Range(seq) == {seq[k] : k \in 1..Len(seq)}

Results == FinalOutput.Results
Errors == FinalOutput.Errors

ResultsFor(target) == {k \in 1..Len(Results) : Results[k].Target = target}
ErrorsFor(target) == {k \in 1..Len(Errors) : Errors[k].Target = target}

\* A MAJOR.MINOR.PATCH string: three non-empty runs of digits.
IsConcreteVersion(s) ==
    LET parts == Split(s)
    IN  /\ Len(parts) = 3
        /\ \A k \in 1..3 : Len(parts[k]) > 0 /\ Range(parts[k]) \subseteq Digits

\* Observations of targets that answered with a manifest of a GitLab.
Matched(o) == o.Kind = "gitlab" /\ o.Hash \in DOMAIN hashDictionary
Unmatched(o) == o.Kind = "gitlab" /\ o.Hash \notin DOMAIN hashDictionary

DatasetAbort == pc \in {"fatalHash", "fatalEol"}
TargetLoopAbort == pc \in {"fatalTags", "exitDate", "panicSlice"}

\* C1: in the final report every result's version is a concrete
\* MAJOR.MINOR.PATCH string or "unknown", never empty.
C1_VersionShape ==
    pc = "printed" =>
        \A k \in 1..Len(Results) :
            IsConcreteVersion(Results[k].Version) \/ Results[k].Version = Unknown

\* C2: a failure while processing one target never aborts the run, and in the
\* final report every target of the list has a result or an error of its own.
C2_FailureStaysWithTarget ==
    /\ ~TargetLoopAbort
    /\ pc = "printed" =>
          \A x \in Range(targetURLs) : ResultsFor(x) \cup ErrorsFor(x) # {}

\* C3: a target with an unmatched hash and a Last-Modified within the last 24
\* hours has exactly one result in the final report, "unknown"/"unknown", both
\* flags false, with a warning, and no error.
C3_TooNewOneResult ==
    pc = "printed" =>
        \A o \in Range(observed) :
            (Unmatched(o) /\ IsFresh(o.LastModifiedDate)) =>
                /\ Cardinality(ResultsFor(o.Target)) = 1
                /\ \A k \in ResultsFor(o.Target) :
                      /\ Results[k].Version = Unknown
                      /\ Results[k].Edition = "unknown"
                      /\ ~Results[k].EndOfLife /\ ~Results[k].Outdated
                      /\ Results[k].Warnings # <<>>
                /\ ErrorsFor(o.Target) = {}

\* C4: a target with an unmatched hash and a Last-Modified older than 24 hours
\* has an error naming the hash in the final report, and no entry in the results.
C4_StaleErrorOnly ==
    pc = "printed" =>
        \A o \in Range(observed) :
            (Unmatched(o) /\ o.LastModifiedDate < Now - FreshnessHours) =>
                /\ \E k \in ErrorsFor(o.Target) : Errors[k].Details[1] = o.Hash
                /\ ResultsFor(o.Target) = {}

\* C5: the tag-history provider is asked only on a cache miss and at most once
\* per minor version, an answered request is stored under its key, and a stored
\* entry is never removed or changed.
C5_TagCacheWriteOnce ==
    [][ /\ \A key \in DOMAIN gitlabTagsCache :
              key \in DOMAIN gitlabTagsCache' /\ gitlabTagsCache'[key] = gitlabTagsCache[key]
        /\ tagFetchLog' # tagFetchLog =>
              \E key \in Range(tagFetchLog') :
                  /\ tagFetchLog' = Append(tagFetchLog, key)
                  /\ key \notin Range(tagFetchLog)
                  /\ key \notin DOMAIN gitlabTagsCache
                  /\ pc' # "fatalTags" => key \in DOMAIN gitlabTagsCache'
        /\ tagFetchLog' = tagFetchLog => gitlabTagsCache' = gitlabTagsCache ]_vars

\* Witness of C5: two targets needed the tags of the same minor version and the
\* provider was asked once.
C5_Witness ==
    /\ pc = "printed"
    /\ Len(tagFetchLog) = 1
    /\ \E a, b \in 1..Len(observed) :
          /\ a < b
          /\ observed[a].Hash = "h2" /\ observed[b].Hash = "h2"
          /\ observed[a].LastModifiedDate # observed[b].LastModifiedDate

\* An entry whose versions span more than one minor version.
SpansMinorVersions(info) == Cardinality(MinorVersionsMap(info.Versions)) > 1

\* C6: a target matching an entry whose versions span several minor versions
\* gets a result that carries an ambiguity warning, keeps the edition of the
\* build label and has no concrete patch version.
C6_AmbiguityYieldsResult ==
    \A o \in Range(observed) :
        (Matched(o) /\ SpansMinorVersions(hashDictionary[o.Hash])) =>
            \E k \in ResultsFor(o.Target) :
                /\ Results[k].Warnings # <<>>
                /\ Results[k].Edition = Edition(hashDictionary[o.Hash].Build)
                /\ ~IsConcreteVersion(Results[k].Version)

\* C7: the result of a matched target has the edition of its build label, and
\* an unknown label is reported in that result's warnings, not in the errors.
C7_EditionWarning ==
    \A o \in Range(observed) :
        Matched(o) =>
            \A k \in ResultsFor(o.Target) :
                LET build == hashDictionary[o.Hash].Build
                IN  /\ Results[k].Edition = Edition(build)
                    /\ build \notin {BuildEE, BuildCE} =>
                          /\ \E w \in Range(Results[k].Warnings) : w[1] = "Could not determine Edition"
                          /\ \A e \in ErrorsFor(o.Target) :
                                Errors[e].Error # "Could not determine Edition"

\* C8: a malformed or unresolvable argument gets one error entry and the run
\* goes on with the next argument.
C8_InputErrorRecorded ==
    /\ pc \notin {"panicUrl", "panicDns"}
    /\ \A k \in 1..(i - 1) :
          k \notin Range(targetURLs) => Cardinality(ErrorsFor(k)) = 1

\* C9 as stated: when a dataset load aborts the run, no manifest was fetched
\* and no result and no error was recorded.
C9_NothingRecordedAtAbort ==
    DatasetAbort =>
        /\ observed = <<>>
        /\ Results = <<>>
        /\ Errors = <<>>

\* C9 amended: when a dataset load aborts the run, no manifest and no tag list
\* was fetched and no result was recorded; the errors recorded so far are the
\* argument loop's "Could not resolve" entries.
C9_AbortBeforeTargetLoop ==
    DatasetAbort =>
        /\ observed = <<>>
        /\ tagFetchLog = <<>>
        /\ Results = <<>>
        /\ \A k \in 1..Len(Errors) : Errors[k].Error = "Could not resolve"

\* Witness of C9: the EOL dataset fails to load with a target waiting and a DNS
\* error already recorded.
C9_Witness ==
    /\ pc = "fatalEol"
    /\ Len(targetURLs) >= 1
    /\ Len(Errors) >= 1

\* C10: in the final report every result with end_of_life = true has
\* outdated = true.
C10_EolImpliesOutdated ==
    pc = "printed" =>
        \A k \in 1..Len(Results) : Results[k].EndOfLife => Results[k].Outdated

\* Witness of C10: a reported result is end-of-life while its version is the
\* latest of its cycle, so only the EOL branch could mark it outdated.
C10_Witness ==
    /\ pc = "printed"
    /\ \E k \in 1..Len(Results) :
          /\ Results[k].EndOfLife
          /\ Results[k].Warnings = <<EolWarning(MinorOf(Results[k].Version))>>

\* The tag loop has gone through its whole list.
NearestDone == pc = "tags" /\ nearest.k > Len(nearest.tags)

\* Positions of the tags created strictly before the reference.
TagsBefore(tags, reference) ==
    {j \in 1..Len(tags) : tags[j].CreatedAtDate < reference}

\* C11: after the loop the selected tag is, among the tags created strictly
\* before the reference, the one with the smallest reference - createdAt, the
\* first of them in list order on a tie; no tag is selected when there is none.
C11_NearestPrecedingTag ==
    NearestDone =>
        LET tags == nearest.tags
            reference == nearest.reference
            before == TagsBefore(tags, reference)
            distance(j) == reference - tags[j].CreatedAtDate
        IN  IF before = {}
                THEN nearest.st.closestDateTag = EmptyString
                ELSE \E j \in before :
                        /\ \A m \in before : distance(j) <= distance(m)
                        /\ \A m \in before : m < j => distance(m) > distance(j)
                        /\ nearest.st.closestDateTag = tags[j].Name

\* Positions of the EOL records whose cycle is the minor cycle of a version.
CycleRecords(version) ==
    {j \in 1..Len(gitlabVersionsInfo) : gitlabVersionsInfo[j].Cycle = MinorOf(version)}

\* C12: the result of a matched target has both flags false and no warning when
\* no EOL record has its cycle; with a record of its cycle, end_of_life says
\* whether the record's EOL date is before today, outdated whether that date is
\* past or the version is not the record's latest, and the warnings are the EOL
\* warning, if it fired, followed by the "outdated, latest" warning, if it fired.
C12_EolEvaluation ==
    \A o \in Range(observed) :
        Matched(o) =>
            \A k \in ResultsFor(o.Target) :
                LET r == Results[k]
                    recs == CycleRecords(r.Version)
                IN  IF recs = {}
                        THEN ~r.EndOfLife /\ ~r.Outdated /\ r.Warnings = <<>>
                        ELSE \A j \in recs :
                            LET rec == gitlabVersionsInfo[j]
                                past == rec.EOL.day < Today
                                behind == r.Version # rec.Latest
                            IN  /\ Cardinality(recs) = 1
                                /\ r.EndOfLife = past
                                /\ r.Outdated = (past \/ behind)
                                /\ r.Warnings =
                                      (IF past THEN <<EolWarning(rec.Cycle)>> ELSE <<>>)
                                        \o (IF behind
                                               THEN <<OutdatedWarning(r.Version, rec.Cycle, rec.Latest)>>
                                               ELSE <<>>)

\* Witness of C12: a reported result for which both triggers fired, the EOL
\* warning first.
C12_Witness ==
    /\ pc = "printed"
    /\ \E k \in 1..Len(Results) :
          /\ IsConcreteVersion(Results[k].Version)
          /\ Results[k].EndOfLife /\ Results[k].Outdated
          /\ Len(Results[k].Warnings) = 2
          /\ Results[k].Warnings[1] = EolWarning(MinorOf(Results[k].Version))
          /\ Results[k].Warnings[2][1] = "is outdated, latest"

====
